---- MODULE Spec2Model ----
(***************************************************************************)
(* A model of go-erlpack's decoder: Unpack, RawData.Cast and               *)
(* UncastedResult.Cast, with processItem, processRawData, processAtom,     *)
(* handleItemCasting and pointerSetter.                                    *)
(*                                                                         *)
(* Bytes are integers 0..255 and byte strings are sequences of them (a Go  *)
(* string, Atom, []byte, RawData and json.RawMessage value is its byte     *)
(* sequence).  A decoded item (the Go interface{} built by processItem) is  *)
(* a record with a kind field k; a Go type is a record with a kind field k; *)
(* a pointer value is NilPtr or a cell [k |-> "ptr", fresh, elem], where    *)
(* fresh tells a cell allocated by the call from one the caller made.      *)
(***************************************************************************)
EXTENDS Integers, Sequences, FiniteSets, TLC

VARIABLES
    term,      \* the well-formed term the input was built from (input generator)
    cut,       \* how many bytes of the term's encoding the input keeps
    data,      \* the caller's input bytes (Data of Unpack)
    byPtr,     \* whether the caller's Ptr argument is a pointer at all
    dtype,     \* the Go type the caller's pointer points to
    dval,      \* the value behind the caller's pointer now
    pre,       \* the value behind the caller's pointer before the last call
    call,      \* the last call made: "none", "Unpack", "RawData.Cast", "UncastedResult.Cast"
    ret,       \* its outcome: "none", "ok", "err" (an error value), "panic"
    cursor,    \* the reader's position (bytes consumed) when the call ended
    panicFirst \* Go's map iteration order: whether a panicking entry is met before a failing one

vars == <<term, cut, data, byPtr, dtype, dval, pre, call, ret, cursor, panicFirst>>

Min(a, b) == IF a < b THEN a ELSE b

RECURSIVE Zeros(_)
Zeros(n) == IF n <= 0 THEN <<>> ELSE <<0>> \o Zeros(n - 1)

(***************************************************************************)
(* Wire tags and the version byte.                                         *)
(***************************************************************************)
Version     == 131
TagAtom     == 115
TagNilList  == 106
TagList     == 108
TagBinary   == 109
TagSmallInt == 97
TagInt32    == 98
TagInt64    == 110
TagFloat    == 70
TagMap      == 116

ChT == 116
ChF == 102
ChN == 110
Rue  == <<114, 117, 101>>
Alse == <<97, 108, 115, 101>>
Il   == <<105, 108>>
TrueName  == <<ChT>> \o Rue
FalseName == <<ChF>> \o Alse
NilName   == <<ChN>> \o Il

(***************************************************************************)
(* Go types of destinations.                                               *)
(***************************************************************************)
TAny      == [k |-> "any"]
TUncasted == [k |-> "UncastedResult"]
TAtom     == [k |-> "Atom"]
TInt      == [k |-> "int"]
TInt32    == [k |-> "int32"]
TInt64    == [k |-> "int64"]
TUint     == [k |-> "uint"]
TUint8    == [k |-> "uint8"]
TFloat64  == [k |-> "float64"]
TString   == [k |-> "string"]
TBytes    == [k |-> "bytes"]
TBool     == [k |-> "bool"]
TRawData  == [k |-> "RawData"]
TRawMessage == [k |-> "RawMessage"]
TPtr(t)      == [k |-> "ptr", e |-> t]
TSlice(t)    == [k |-> "slice", e |-> t]
TMap(kt, vt) == [k |-> "gomap", key |-> kt, val |-> vt]
TStruct(h, fs) == [k |-> "struct", hook |-> h, fields |-> fs]
Field(n, t, ty) == [name |-> n, tag |-> t, type |-> ty]

\* reflect.Kind() == reflect.Slice, with the element type
IsSliceKind(t) == t.k \in {"slice", "bytes", "RawData", "RawMessage"}
SliceElem(t) == IF t.k = "slice" THEN t.e ELSE TUint8

(***************************************************************************)
(* Decoded items.                                                          *)
(***************************************************************************)
NilItem        == [k |-> "nil"]
AtomItem(n)    == [k |-> "Atom", v |-> n]
BoolItem(b)    == [k |-> "bool", v |-> b]
Uint8Item(n)   == [k |-> "uint8", v |-> n]
Int32Item(n)   == [k |-> "int32", v |-> n]
Int64Item(n)   == [k |-> "int64", v |-> n]
FloatItem(b)   == [k |-> "float64", v |-> b]
BytesItem(b)   == [k |-> "bytes", v |-> b]
StringItem(b)  == [k |-> "string", v |-> b]
ListItem(s)    == [k |-> "list", v |-> s]
MapItem(s)     == [k |-> "map", v |-> s]

NilPtr == [k |-> "nilptr"]
FreshPtr(v) == [k |-> "ptr", fresh |-> TRUE, elem |-> v]
OldPtr(v)   == [k |-> "ptr", fresh |-> FALSE, elem |-> v]

\* The zero value of a Go type (reflect.New / reflect.Zero).
RECURSIVE Zero(_)
Zero(t) ==
    CASE t.k \in {"int", "int32", "int64", "uint", "uint8"} -> 0
      [] t.k \in {"Atom", "string", "bytes", "RawData", "RawMessage", "slice", "gomap"} -> <<>>
      [] t.k = "float64" -> Zeros(8)
      [] t.k = "bool" -> FALSE
      [] t.k = "any" -> NilItem
      [] t.k = "UncastedResult" -> [item |-> NilItem]
      [] t.k = "ptr" -> NilPtr
      [] t.k = "struct" -> [i \in 1..Len(t.fields) |-> Zero(t.fields[i].type)]

(***************************************************************************)
(* pointerSetter.                                                          *)
(***************************************************************************)
\* getBasePtr: the innermost non-pointer type behind s.ptr
RECURSIVE BaseType(_)
BaseType(t) == IF t.k = "ptr" THEN BaseType(t.e) ELSE t

\* set's loop and final write: what the cell s.ptr points to holds afterwards.
\* Every pointer layer gets a fresh cell; a nil ptr zeroes the last parent.
RECURSIVE SetChain(_, _, _)
SetChain(t, nilp, leaf) ==
    IF t.k = "ptr"
    THEN IF nilp /\ t.e.k # "ptr"
         THEN NilPtr
         ELSE FreshPtr(SetChain(t.e, nilp, leaf))
    ELSE leaf

\* A set that rejects every nil pointer, after its allocation loop has run.
SetRejectNilLate(t, v, nilp, leaf) ==
    IF nilp
    THEN [st |-> "err", val |-> SetChain(t, FALSE, Zero(BaseType(t)))]
    ELSE [st |-> "ok", val |-> SetChain(t, nilp, leaf)]

\* set(ptr): t is the type s.ptr points to, v the value there, nilp is
\* ptr.IsNil(), leaf is ptr.Elem()
Set(t, v, nilp, leaf) ==
    IF nilp /\ t.k # "ptr"
    THEN [st |-> "err", val |-> v]
    ELSE [st |-> "ok", val |-> SetChain(t, nilp, leaf)]

(***************************************************************************)
(* handleItemCasting.                                                      *)
(***************************************************************************)
Err(v)      == [st |-> "err", val |-> v]
Panicked(v) == [st |-> "panic", val |-> v]

Dash == <<45>>

\* the key a field is looked up by: its erlpack tag, or its name when untagged
LookupKey(f) == IF f.tag = <<>> THEN f.name ELSE f.tag

\* tag2field[key], as the index of the field it names (0: no entry); a later
\* field overwrites an earlier one with the same key
FieldFor(fields, key) ==
    LET hits == {i \in 1..Len(fields) :
                    fields[i].tag # Dash /\ LookupKey(fields[i]) = key}
    IN  IF hits = {} THEN 0 ELSE CHOOSE i \in hits : \A j \in hits : j <= i

\* m[key] = val on a map held as a sequence of entries with distinct keys
MapSet(m, key, val) ==
    IF \E i \in 1..Len(m) : m[i].key = key
    THEN [i \in 1..Len(m) |-> IF m[i].key = key THEN [key |-> key, val |-> val] ELSE m[i]]
    ELSE Append(m, [key |-> key, val |-> val])

\* The outcome of a loop over a Go map whose entries end as sts: the first
\* entry that does not succeed ends the loop, and the order is Go's choice.
LoopOutcome(sts) ==
    IF "err" \in sts /\ "panic" \in sts
    THEN (IF panicFirst THEN "panic" ELSE "err")
    ELSE IF "err" \in sts THEN "err"
    ELSE IF "panic" \in sts THEN "panic"
    ELSE "ok"

\* The struct a record cast starts from when it keeps the destination's fields.
NewStructKeep(l, t, v) == IF t.k = "struct" THEN v ELSE Zero(l)

\* i := reflect.New(e): the struct the fields are cast into
NewStruct(l, t, v) == Zero(l)

RECURSIVE HandleItemCasting(_, _, _)
RECURSIVE CastElems(_, _)
RECURSIVE CastEntries(_, _, _)

\* the slice branch's loop: every element cast into a new slot of type et
CastElems(items, et) ==
    IF items = <<>>
    THEN [st |-> "ok", val |-> <<>>]
    ELSE LET r == HandleItemCasting(items[1], et, Zero(et))
         IN  IF r.st # "ok"
             THEN [st |-> r.st, val |-> <<>>]
             ELSE LET rest == CastElems(Tail(items), et)
                  IN  IF rest.st # "ok"
                      THEN rest
                      ELSE [st |-> "ok", val |-> <<r.val>> \o rest.val]

\* the map branch's loop: every key and value cast into new slots
CastEntries(entries, kt, vt) ==
    IF entries = <<>>
    THEN [sts |-> {}, val |-> <<>>]
    ELSE LET rk   == HandleItemCasting(entries[1].key, kt, Zero(kt))
             rv   == HandleItemCasting(entries[1].val, vt, Zero(vt))
             st   == IF rk.st # "ok" THEN rk.st ELSE rv.st
             rest == CastEntries(Tail(entries), kt, vt)
         IN  [sts |-> {st} \cup rest.sts,
              val |-> IF st = "ok" /\ rest.sts \subseteq {"ok"}
                      THEN (IF \E i \in 1..Len(rest.val) : rest.val[i].key = rk.val
                            THEN rest.val
                            ELSE <<[key |-> rk.val, val |-> rv.val]>> \o rest.val)
                      ELSE <<>>]

\* the record branch, after the hook test: t is the type the setter points
\* to, l its base type (a struct), v the destination's value
CastStruct(Item, l, t, v) ==
    LET fs == l.fields
        x  == Item.v
        fieldOf(e) == IF e.key.k = "string" THEN FieldFor(fs, e.key.v) ELSE 0
        castOf(e)  == HandleItemCasting(e.val, fs[fieldOf(e)].type,
                                        Zero(fs[fieldOf(e)].type))
        stOf(e)    == IF e.key.k # "string" THEN "err"
                      ELSE IF fieldOf(e) = 0 THEN "ok"
                      ELSE castOf(e).st
        out  == LoopOutcome({stOf(x[i]) : i \in 1..Len(x)})
        base == NewStruct(l, t, v)
        new  == [f \in 1..Len(fs) |->
                    IF \E i \in 1..Len(x) : fieldOf(x[i]) = f
                    THEN castOf(x[CHOOSE i \in 1..Len(x) : fieldOf(x[i]) = f]).val
                    ELSE base[f]]
    IN  IF out # "ok" THEN [st |-> out, val |-> v] ELSE Set(t, v, FALSE, new)

\* handleItemCasting(Item, setter): t is the type setter.ptr points to and v
\* the value there; the result is the outcome and the value there afterwards
HandleItemCasting(Item, t, v) ==
    LET l == BaseType(t) IN
    IF l.k = "any" THEN Set(t, v, FALSE, Item)
    ELSE IF l.k = "UncastedResult" THEN Set(t, v, FALSE, [item |-> Item])
    ELSE CASE Item.k = "Atom" ->
                IF l.k = "Atom" THEN Set(t, v, FALSE, Item.v) ELSE Err(v)
           [] Item.k = "int64" ->
                IF l.k \in {"int", "int64"} THEN Set(t, v, FALSE, Item.v) ELSE Err(v)
           [] Item.k = "int32" ->
                IF l.k \in {"int", "int32"} THEN Set(t, v, FALSE, Item.v) ELSE Err(v)
           [] Item.k = "float64" ->
                IF l.k = "float64" THEN Set(t, v, FALSE, Item.v) ELSE Err(v)
           [] Item.k = "uint8" ->
                IF l.k \in {"uint", "uint8", "int"} THEN Set(t, v, FALSE, Item.v) ELSE Err(v)
           [] Item.k = "string" ->
                IF l.k = "string" THEN Set(t, v, FALSE, Item.v) ELSE Err(v)
           [] Item.k = "bytes" ->
                IF l.k \in {"string", "bytes"} THEN Set(t, v, FALSE, Item.v) ELSE Err(v)
           [] Item.k = "bool" ->
                IF l.k = "Atom"
                THEN Set(t, v, FALSE, IF Item.v THEN TrueName ELSE FalseName)
                ELSE IF l.k = "bool" THEN Set(t, v, FALSE, Item.v)
                ELSE Err(v)
           [] Item.k = "nil" ->
                IF l.k = "Atom" THEN Set(t, v, FALSE, NilName)
                ELSE Set(t, v, TRUE, Zero(l))
           [] Item.k = "list" ->
                IF l = TSlice(TAny) THEN Set(t, v, FALSE, Item.v)
                ELSE IF ~IsSliceKind(l) THEN Panicked(v)
                ELSE LET r == CastElems(Item.v, SliceElem(l))
                     IN  IF r.st # "ok" THEN [st |-> r.st, val |-> v]
                         ELSE Set(t, v, FALSE, r.val)
           [] Item.k = "map" ->
                IF l = TMap(TAny, TAny) THEN Set(t, v, FALSE, Item.v)
                ELSE IF l.k = "struct"
                THEN IF l.hook = "nil" THEN [st |-> "ok", val |-> v]
                     ELSE IF l.hook = "error" THEN Err(v)
                     ELSE CastStruct(Item, l, t, v)
                ELSE IF l.k = "gomap"
                THEN LET r   == CastEntries(Item.v, l.key, l.val)
                         out == LoopOutcome(r.sts)
                     IN  IF out # "ok" THEN [st |-> out, val |-> v]
                         ELSE Set(t, v, FALSE, r.val)
                ELSE Err(v)

(***************************************************************************)
(* bytes.Reader over d: i bytes are consumed.                              *)
(***************************************************************************)
\* r.ReadByte()
ReadByte(d, i) ==
    IF i >= Len(d)
    THEN [err |-> TRUE, b |-> 0, i |-> i]
    ELSE [err |-> FALSE, b |-> d[i + 1], i |-> i + 1]

\* r.Read(buf) into a zeroed buf of n bytes: io.EOF only when nothing is
\* left (also for n = 0); otherwise it copies what there is and reports no
\* error, so the rest of buf stays zero
Read(d, i, n) ==
    IF i >= Len(d)
    THEN [err |-> TRUE, buf |-> <<>>, i |-> i]
    ELSE LET c == Min(n, Len(d) - i)
         IN  [err |-> FALSE, buf |-> SubSeq(d, i + 1, i + c) \o Zeros(n - c), i |-> i + c]

\* a loop of n r.ReadByte() calls filling a buffer, failing on the first
\* that finds nothing left
ReadBytes(d, i, n) ==
    IF Len(d) - i < n
    THEN [err |-> TRUE, buf |-> <<>>, i |-> Len(d)]
    ELSE [err |-> FALSE, buf |-> SubSeq(d, i + 1, i + n), i |-> i + n]

\* binary.BigEndian.Uint32
Uint32(b) == b[1] * 16777216 + b[2] * 65536 + b[3] * 256 + b[4]

\* *(*int32)(unsafe.Pointer(&l)) of the big-endian uint32 of b
Int32Of(b) == (IF b[1] >= 128 THEN b[1] - 256 ELSE b[1]) * 16777216
              + b[2] * 65536 + b[3] * 256 + b[4]

\* make([]byte, 5, (l*m)+5) panics when the uint32 capacity wraps below 5;
\* the product is taken in 16-bit halves, modulo 2^32
CapBelowLen(l, m) ==
    LET lo == (l % 65536) * m + 5
        hi == ((l \div 65536) * m + (lo \div 65536)) % 65536
    IN  hi = 0 /\ (lo % 65536) < 5

(***************************************************************************)
(* processAtom.                                                            *)
(***************************************************************************)
\* matchRest(d): the bytes after the first start with d
MatchRest(Data, dd) ==
    /\ ~(Len(dd) > Len(Data) - 1)
    /\ \A i \in 1..Len(dd) : Data[i + 1] = dd[i]

\* Data[0] of an empty Data is an index out of range
ProcessAtom(Data) ==
    IF Len(Data) = 0 THEN [st |-> "panic", item |-> NilItem]
    ELSE CASE Data[1] = ChT ->
                [st |-> "ok", item |-> IF MatchRest(Data, Rue) THEN BoolItem(TRUE) ELSE AtomItem(Data)]
           [] Data[1] = ChF ->
                [st |-> "ok", item |-> IF MatchRest(Data, Alse) THEN BoolItem(FALSE) ELSE AtomItem(Data)]
           [] Data[1] = ChN ->
                [st |-> "ok", item |-> IF MatchRest(Data, Il) THEN NilItem ELSE AtomItem(Data)]
           [] OTHER -> [st |-> "ok", item |-> AtomItem(Data)]

(***************************************************************************)
(* processRawData.                                                         *)
(***************************************************************************)
Stop(st, i, v) == [st |-> st, i |-> i, val |-> v]

\* the bytes the n case reads after the length byte
RawInt64Payload(eb) == eb

RECURSIVE ProcessRawData(_, _, _, _, _, _)
RECURSIVE RawItems(_, _, _, _)

\* the l and t loops: n items, each read through a RawData setter of its own
\* and appended to acc
RawItems(d, i, n, acc) ==
    IF n = 0 THEN Stop("ok", i, acc)
    ELSE LET tg == ReadByte(d, i)
         IN  IF tg.err THEN Stop("err", tg.i, acc)
             ELSE LET r == ProcessRawData(tg.b, TRawData, <<>>, d, tg.i, FALSE)
                  IN  IF r.st # "ok" THEN Stop(r.st, r.i, acc)
                      ELSE RawItems(d, r.i, n - 1, acc \o r.val)

\* the bytes of the term whose tag was just read, with the reader after them
RawBytes(DataType, d, i) ==
    CASE DataType = TagAtom ->
            IF Len(d) - i = 0 THEN Stop("err", i, <<>>)
            ELSE LET b == ReadByte(d, i)
                     p == ReadBytes(d, b.i, b.b)
                 IN  IF p.err THEN Stop("err", p.i, <<>>)
                     ELSE Stop("ok", p.i, <<TagAtom, b.b>> \o p.buf)
      [] DataType = TagNilList -> Stop("ok", i, <<TagNilList>>)
      [] DataType \in {TagList, TagMap} ->
            LET lb == Read(d, i, 4)
                l  == Uint32(lb.buf)
                m  == IF DataType = TagList THEN 3 ELSE 6
                n  == IF DataType = TagList THEN l ELSE 2 * l
            IN  IF lb.err THEN Stop("err", lb.i, <<>>)
                ELSE IF CapBelowLen(l, m) THEN Stop("panic", lb.i, <<>>)
                ELSE RawItems(d, lb.i, n, <<DataType>> \o lb.buf)
      [] DataType = TagBinary ->
            LET lb == Read(d, i, 4)
                p  == ReadBytes(d, lb.i, Uint32(lb.buf))
            IN  IF lb.err THEN Stop("err", lb.i, <<>>)
                ELSE IF p.err THEN Stop("err", p.i, <<>>)
                ELSE Stop("ok", p.i, <<TagBinary>> \o lb.buf \o p.buf)
      [] DataType = TagSmallInt ->
            LET b == ReadByte(d, i)
            IN  IF b.err THEN Stop("err", b.i, <<>>)
                ELSE Stop("ok", b.i, <<TagSmallInt, b.b>>)
      [] DataType = TagInt32 ->
            LET b == Read(d, i, 4)
            IN  IF b.err THEN Stop("err", b.i, <<>>)
                ELSE Stop("ok", b.i, <<TagInt32>> \o b.buf)
      [] DataType = TagInt64 ->
            LET eb == ReadByte(d, i)
                p  == ReadBytes(d, eb.i, RawInt64Payload(eb.b))
            IN  IF eb.err THEN Stop("err", eb.i, <<>>)
                ELSE IF (eb.b + 2) % 256 < 2 THEN Stop("panic", eb.i, <<>>)
                ELSE IF p.err THEN Stop("err", p.i, <<>>)
                ELSE Stop("ok", p.i, <<TagInt64, eb.b>> \o p.buf)
      [] DataType = TagFloat ->
            LET p == ReadBytes(d, i, 8)
            IN  IF p.err THEN Stop("err", p.i, <<>>)
                ELSE Stop("ok", p.i, <<TagFloat>> \o p.buf)
      [] OTHER -> Stop("err", i, <<>>)

\* processRawData(DataType, setter, r, jsonType): t is the type the setter
\* points to, v the value there
ProcessRawData(DataType, t, v, d, i, jsonType) ==
    LET b == RawBytes(DataType, d, i)
    IN  IF b.st # "ok" THEN Stop(b.st, b.i, v)
        ELSE LET s == Set(t, v, FALSE, b.val)
             IN  Stop(s.st, b.i, s.val)

(***************************************************************************)
(* processItem.                                                            *)
(***************************************************************************)
\* go's map assignment m[Key] = Value panics on a key that cannot be hashed
Unhashable(key) == key.k \in {"list", "map"}

\* x := uint64(0), the weight of the first magnitude byte
BigFirstWeight == 0

\* the n loop: u += uint64(b) * x; x <<= 8, for n bytes
RECURSIVE BigLoop(_, _, _, _, _)
BigLoop(d, i, n, u, x) ==
    IF n = 0 THEN [err |-> FALSE, i |-> i, u |-> u]
    ELSE LET b == ReadByte(d, i)
         IN  IF b.err THEN [err |-> TRUE, i |-> b.i, u |-> u]
             ELSE BigLoop(d, b.i, n - 1, u + b.b * x, x * 256)

RECURSIVE ProcessItem(_, _, _, _)
RECURSIVE ListLoop(_, _, _, _)
RECURSIVE MapLoop(_, _, _, _)

\* the l loop: n elements, each through processItem on a *interface{}
ListLoop(d, i, n, acc) ==
    IF n = 0 THEN Stop("ok", i, acc)
    ELSE LET r == ProcessItem(TAny, NilItem, d, i)
         IN  IF r.st # "ok" THEN Stop(r.st, r.i, acc)
             ELSE ListLoop(d, r.i, n - 1, Append(acc, r.val))

\* the t loop: n pairs; a []byte key is stored as a string
MapLoop(d, i, n, acc) ==
    IF n = 0 THEN Stop("ok", i, acc)
    ELSE LET rk == ProcessItem(TAny, NilItem, d, i)
             rv == ProcessItem(TAny, NilItem, d, rk.i)
             Key == IF rk.val.k = "bytes" THEN StringItem(rk.val.v) ELSE rk.val
         IN  IF rk.st # "ok" THEN Stop(rk.st, rk.i, acc)
             ELSE IF rv.st # "ok" THEN Stop(rv.st, rv.i, acc)
             ELSE IF Unhashable(Key) THEN Stop("panic", rv.i, acc)
             ELSE MapLoop(d, rv.i, n - 1, MapSet(acc, Key, rv.val))

\* the switch on DataType that builds Item, the reader being after the tag
Materialize(DataType, d, i) ==
    CASE DataType = TagAtom ->
            IF Len(d) - i = 0 THEN Stop("err", i, NilItem)
            ELSE LET b == ReadByte(d, i)
                     p == ReadBytes(d, b.i, b.b)
                     a == ProcessAtom(p.buf)
                 IN  IF p.err THEN Stop("err", p.i, NilItem)
                     ELSE Stop(a.st, p.i, a.item)
      [] DataType = TagNilList -> Stop("ok", i, ListItem(<<>>))
      [] DataType = TagList ->
            LET lb == Read(d, i, 4)
                r  == ListLoop(d, lb.i, Uint32(lb.buf), <<>>)
            IN  IF lb.err THEN Stop("err", lb.i, NilItem)
                ELSE IF r.st # "ok" THEN Stop(r.st, r.i, NilItem)
                ELSE Stop("ok", r.i, ListItem(r.val))
      [] DataType = TagBinary ->
            LET lb == Read(d, i, 4)
                p  == Read(d, lb.i, Uint32(lb.buf))
            IN  IF lb.err THEN Stop("err", lb.i, NilItem)
                ELSE IF p.err THEN Stop("err", p.i, NilItem)
                ELSE Stop("ok", p.i, BytesItem(p.buf))
      [] DataType = TagSmallInt ->
            LET b == ReadByte(d, i)
            IN  IF b.err THEN Stop("err", b.i, NilItem)
                ELSE Stop("ok", b.i, Uint8Item(b.b))
      [] DataType = TagInt32 ->
            LET b == Read(d, i, 4)
            IN  IF b.err THEN Stop("err", b.i, NilItem)
                ELSE Stop("ok", b.i, Int32Item(Int32Of(b.buf)))
      [] DataType = TagInt64 ->
            LET eb == ReadByte(d, i)
                sg == ReadByte(d, eb.i)
                negative == sg.b = 1
                r  == BigLoop(d, sg.i, eb.b, 0, BigFirstWeight)
            IN  IF eb.err THEN Stop("err", eb.i, NilItem)
                ELSE IF sg.err THEN Stop("err", sg.i, NilItem)
                ELSE IF r.err THEN Stop("err", r.i, NilItem)
                ELSE Stop("ok", r.i, Int64Item(IF negative THEN r.u * (-1) ELSE r.u))
      [] DataType = TagFloat ->
            LET p == Read(d, i, 8)
            IN  IF p.err THEN Stop("err", p.i, NilItem)
                ELSE Stop("ok", p.i, FloatItem(p.buf))
      [] DataType = TagMap ->
            LET lb == Read(d, i, 4)
                r  == MapLoop(d, lb.i, Uint32(lb.buf), <<>>)
            IN  IF lb.err THEN Stop("err", lb.i, NilItem)
                ELSE IF r.st # "ok" THEN Stop(r.st, r.i, NilItem)
                ELSE Stop("ok", r.i, MapItem(r.val))
      [] OTHER -> Stop("err", i, NilItem)

\* processItem(setter, r): t is the type the setter points to, v the value
\* there, i the reader's position
ProcessItem(t, v, d, i) ==
    LET tg == ReadByte(d, i)
        l  == BaseType(t)
    IN  IF tg.err THEN Stop("err", tg.i, v)
        ELSE IF l.k = "RawMessage" THEN ProcessRawData(tg.b, t, v, d, tg.i, TRUE)
        ELSE IF l.k = "RawData" THEN ProcessRawData(tg.b, t, v, d, tg.i, FALSE)
        ELSE LET m == Materialize(tg.b, d, tg.i)
             IN  IF m.st # "ok" THEN Stop(m.st, m.i, v)
                 ELSE LET c == HandleItemCasting(m.val, t, v)
                      IN  Stop(c.st, m.i, c.val)

\* the first make(...) of processItem or processRawData (raw) whose size comes
\* from a length read from the wire, the reader being after the tag: made is
\* whether the code reaches it, n the wire length that sizes it (the atom
\* length, the list or map count, the binary length, the n length byte) and
\* left the bytes still unread when it runs
AllocRequest(DataType, d, i, raw) ==
    CASE DataType = TagAtom ->
            LET b == ReadByte(d, i)
            IN  [made |-> ~(Len(d) - i = 0), n |-> b.b, left |-> Len(d) - b.i]
      [] DataType \in {TagList, TagBinary, TagMap} ->
            LET lb == Read(d, i, 4)
            IN  IF lb.err THEN [made |-> FALSE, n |-> 0, left |-> Len(d) - lb.i]
                ELSE [made |-> TRUE, n |-> Uint32(lb.buf), left |-> Len(d) - lb.i]
      [] DataType = TagInt64 ->
            LET eb == ReadByte(d, i)
            IN  [made |-> raw /\ ~eb.err, n |-> eb.b, left |-> Len(d) - eb.i]
      [] OTHER -> [made |-> FALSE, n |-> 0, left |-> Len(d) - i]

(***************************************************************************)
(* The public functions.                                                   *)
(***************************************************************************)
\* Unpack(Data, Ptr); isPtr is v.ptr.Kind() == reflect.Ptr
UnpackFn(Data, isPtr, t, v) ==
    IF ~isPtr THEN Stop("err", 0, v)
    ELSE IF 2 > Len(Data) THEN Stop("err", 0, v)
    ELSE IF Data[1] # Version THEN Stop("err", 1, v)
    ELSE ProcessItem(t, v, Data, 1)

\* RawData.Cast(Ptr) on the raw bytes r
RawDataCastFn(r, isPtr, t, v) ==
    IF ~isPtr THEN Stop("err", 0, v) ELSE ProcessItem(t, v, r, 0)

\* UncastedResult.Cast(Ptr) on the result u
UncastedCastFn(u, isPtr, t, v) ==
    IF ~isPtr THEN Stop("err", 0, v)
    ELSE LET c == HandleItemCasting(u.item, t, v) IN Stop(c.st, 0, c.val)

(***************************************************************************)
(* The inputs: well-formed terms, their encodings, the cuts and trailers,  *)
(* and the destinations a caller passes.                                   *)
(***************************************************************************)
MaxBigLen == 2     \* magnitude bytes of an n term
MaxElems  == 2     \* elements of an l term
MaxTrail  == 1     \* bytes that follow a whole term

AtomT(n)      == [tag |-> "s", name |-> n]
NilListT      == [tag |-> "j"]
SmallT(n)     == [tag |-> "a", n |-> n]
Int32T(b)     == [tag |-> "b", bytes |-> b]
BigT(sg, mag) == [tag |-> "n", sign |-> sg, mag |-> mag]
BinT(b)       == [tag |-> "m", bin |-> b]
FloatT(b)     == [tag |-> "F", bits |-> b]
ListT(es)     == [tag |-> "l", elems |-> es]
MapT(ps)      == [tag |-> "t", pairs |-> ps]
Pair(kt, vt)  == [key |-> kt, val |-> vt]

NameA == <<65>>
NameB == <<98>>
NameC == <<67>>
NameD == <<100>>
TextHi == <<104, 105>>
TextOk == <<111, 107>>

U32(n) == <<0, 0, n \div 256, n % 256>>

RECURSIVE Enc(_)
RECURSIVE EncAll(_)
RECURSIVE EncPairs(_)
EncAll(ts) == IF ts = <<>> THEN <<>> ELSE Enc(ts[1]) \o EncAll(Tail(ts))
EncPairs(ps) ==
    IF ps = <<>> THEN <<>>
    ELSE Enc(ps[1].key) \o Enc(ps[1].val) \o EncPairs(Tail(ps))
Enc(t) ==
    CASE t.tag = "s" -> <<TagAtom, Len(t.name)>> \o t.name
      [] t.tag = "j" -> <<TagNilList>>
      [] t.tag = "a" -> <<TagSmallInt, t.n>>
      [] t.tag = "b" -> <<TagInt32>> \o t.bytes
      [] t.tag = "n" -> <<TagInt64, Len(t.mag), t.sign>> \o t.mag
      [] t.tag = "m" -> <<TagBinary>> \o U32(Len(t.bin)) \o t.bin
      [] t.tag = "F" -> <<TagFloat>> \o t.bits
      [] t.tag = "l" -> <<TagList>> \o U32(Len(t.elems)) \o EncAll(t.elems)
      [] t.tag = "t" -> <<TagMap>> \o U32(Len(t.pairs)) \o EncPairs(t.pairs)

SeqsUpTo(S, n) == UNION {[1..m -> S] : m \in 0..n}

AtomNames == {TrueName, FalseName, NilName, TrueName \o <<120>>, <<ChT>>,
              <<ChN, 105>>, TextOk, <<>>}
AtomTerms == {AtomT(n) : n \in AtomNames}
IntTerms  == {SmallT(0), SmallT(5), Int32T(<<0, 0, 0, 5>>), Int32T(<<255, 255, 255, 251>>)}
BigTerms  == {BigT(sg, mag) : sg \in {0, 1, 2}, mag \in SeqsUpTo({1, 5}, MaxBigLen)}
BinTerms  == {BinT(b) : b \in {<<>>, NameA, TextHi}}
FloatTerms == {FloatT(<<64, 9, 33, 251, 84, 68, 45, 24>>)}
LeafTerms == AtomTerms \cup {NilListT} \cup IntTerms \cup BigTerms \cup BinTerms
             \cup FloatTerms

ElemTerms == {SmallT(5), BinT(<<>>), AtomT(NilName), BigT(0, <<5>>)}
ListTerms == {ListT(es) : es \in SeqsUpTo(ElemTerms, MaxElems) \ {<<>>}}

KeyTerms  == {BinT(NameA), BinT(NameB), BinT(NameC), SmallT(5)}
ValTerms  == {SmallT(5), BinT(TextHi), AtomT(NilName), NilListT}
MapTerms  ==
    {MapT(<<Pair(kt, vt)>>) : kt \in KeyTerms, vt \in ValTerms}
    \cup {MapT(<<Pair(BinT(NameA), v1), Pair(kt, v2)>>) :
            v1 \in {SmallT(5), NilListT}, kt \in KeyTerms \ {BinT(NameA)},
            v2 \in {SmallT(5), BinT(TextHi)}}

NestedTerms ==
    {ListT(<<ListT(<<SmallT(5)>>), BinT(<<>>)>>),
     ListT(<<MapT(<<Pair(BinT(NameA), SmallT(5))>>)>>),
     MapT(<<Pair(BinT(NameA), ListT(<<SmallT(5), SmallT(0)>>))>>),
     MapT(<<Pair(NilListT, SmallT(5))>>),
     MapT(<<Pair(BinT(NameA), BigT(0, <<5>>))>>)}

Terms == LeafTerms \cup ListTerms \cup MapTerms \cup NestedTerms

Trailers == {[i \in 1..m |-> TagSmallInt] : m \in 0..MaxTrail}

\* Destinations: the type the caller's pointer points to and the value there.
Dest(t, v) == [t |-> t, v |-> v]

S1 == TStruct("none", <<Field(NameA, <<>>, TInt), Field(<<66>>, NameB, TString),
                        Field(NameC, Dash, TInt), Field(NameD, NameD, TPtr(TInt))>>)
S1Filled == <<7, TextOk, 9, OldPtr(3)>>
SHookNil == TStruct("nil", <<Field(NameA, <<>>, TInt)>>)
SHookErr == TStruct("error", <<Field(NameA, <<>>, TInt)>>)
SDup == TStruct("none", <<Field(<<88>>, NameA, TInt), Field(NameA, <<>>, TInt)>>)
SRaw == TStruct("none", <<Field(NameA, <<>>, TRawData)>>)

CommonDests ==
    {Dest(TAny, NilItem), Dest(TAny, Uint8Item(9)), Dest(TUncasted, Zero(TUncasted)),
     Dest(TRawData, <<>>), Dest(TRawMessage, <<1>>), Dest(TPtr(TRawData), NilPtr),
     Dest(TInt, 7), Dest(TPtr(TPtr(TInt)), OldPtr(OldPtr(7)))}

DestsOf(tag) ==
    CASE tag = "s" ->
            {Dest(TAtom, <<120>>), Dest(TBool, FALSE), Dest(TPtr(TAtom), NilPtr),
             Dest(TPtr(TInt), OldPtr(7)), Dest(TPtr(TPtr(TPtr(TInt))), NilPtr),
             Dest(TString, TextOk), Dest(TBytes, <<1>>), Dest(TPtr(TBytes), OldPtr(<<1>>))}
      [] tag \in {"a", "b", "n"} ->
            {Dest(TInt32, 7), Dest(TInt64, 7), Dest(TUint, 7), Dest(TUint8, 7),
             Dest(TFloat64, Zeros(8)), Dest(TPtr(TInt64), NilPtr)}
      [] tag = "m" ->
            {Dest(TString, TextOk), Dest(TBytes, <<1>>), Dest(TAtom, <<>>),
             Dest(TPtr(TString), OldPtr(TextOk))}
      [] tag = "F" -> {Dest(TFloat64, Zeros(8)), Dest(TString, <<>>)}
      [] tag \in {"j", "l"} ->
            {Dest(TSlice(TAny), <<>>), Dest(TSlice(TInt), <<7>>), Dest(TSlice(TRawData), <<>>),
             Dest(TSlice(TString), <<TextOk>>), Dest(TBytes, <<1>>),
             Dest(TSlice(TPtr(TInt)), <<>>), Dest(TString, TextOk)}
      [] tag = "t" ->
            {Dest(S1, Zero(S1)), Dest(S1, S1Filled), Dest(TPtr(S1), OldPtr(S1Filled)),
             Dest(SHookNil, <<7>>), Dest(SHookErr, <<7>>), Dest(SDup, <<7, 7>>),
             Dest(SRaw, <<<<>>>>), Dest(TMap(TAny, TAny), <<>>),
             Dest(TMap(TString, TAny), <<>>), Dest(TMap(TString, TInt), <<>>),
             Dest(TMap(TString, TRawData), <<>>), Dest(TMap(TAny, TInt), <<>>)}

DestsFor(t) == CommonDests \cup DestsOf(t.tag)

\* what a cut input is decoded into
CutDests ==
    {Dest(TAny, NilItem), Dest(TRawData, <<>>), Dest(TInt32, 7), Dest(TString, TextOk),
     Dest(TFloat64, Zeros(8)), Dest(TPtr(TPtr(TInt)), OldPtr(OldPtr(7)))}

(***************************************************************************)
(* The state machine: a caller builds an input and a destination, calls    *)
(* Unpack, and may cast a RawData or an UncastedResult it got.             *)
(***************************************************************************)
\* the value at the end of the destination's pointer chain (NilPtr when a
\* layer is nil)
RECURSIVE LeafVal(_, _)
LeafVal(t, v) ==
    IF t.k # "ptr" THEN v
    ELSE IF v = NilPtr THEN NilPtr
    ELSE LeafVal(t.e, v.elem)

\* whether no layer of the destination's pointer chain is nil
RECURSIVE Reaches(_, _)
Reaches(t, v) == t.k = "ptr" => (v # NilPtr /\ Reaches(t.e, v.elem))

Whole == cut = Len(Enc(term))

Init ==
    /\ term \in Terms
    /\ cut \in 0..Len(Enc(term))
    /\ \E tr \in Trailers, ver \in {Version, Version - 1} :
          /\ cut < Len(Enc(term)) => tr = <<>>
          /\ ver # Version => term = NilListT
          /\ data = <<ver>> \o SubSeq(Enc(term), 1, cut) \o tr
    /\ \E d \in (IF cut = Len(Enc(term)) THEN DestsFor(term) ELSE CutDests) :
          /\ dtype = d.t
          /\ dval = d.v
          /\ pre = d.v
    /\ byPtr \in BOOLEAN
    /\ ~byPtr => term = NilListT
    /\ panicFirst \in BOOLEAN
    /\ panicFirst => (term.tag = "t" /\ Len(term.pairs) > 1 /\ cut = Len(Enc(term)))
    /\ call = "none"
    /\ ret = "none"
    /\ cursor = 0

Unpack ==
    /\ call = "none"
    /\ LET r == UnpackFn(data, byPtr, dtype, dval)
       IN  /\ dval' = r.val
           /\ ret' = r.st
           /\ cursor' = r.i
    /\ pre' = dval
    /\ call' = "Unpack"
    /\ UNCHANGED <<term, cut, data, byPtr, dtype, panicFirst>>

RawDataCast(d) ==
    /\ call = "Unpack"
    /\ ret = "ok"
    /\ dtype = TRawData
    /\ LET r == RawDataCastFn(dval, byPtr, d.t, d.v)
       IN  /\ dval' = r.val
           /\ ret' = r.st
           /\ cursor' = r.i
    /\ dtype' = d.t
    /\ pre' = d.v
    /\ call' = "RawData.Cast"
    /\ UNCHANGED <<term, cut, data, byPtr, panicFirst>>

UncastedResultCast(d) ==
    /\ call = "Unpack"
    /\ ret = "ok"
    /\ dtype = TUncasted
    /\ LET r == UncastedCastFn(dval, byPtr, d.t, d.v)
       IN  /\ dval' = r.val
           /\ ret' = r.st
           /\ cursor' = r.i
    /\ dtype' = d.t
    /\ pre' = d.v
    /\ call' = "UncastedResult.Cast"
    /\ UNCHANGED <<term, cut, data, byPtr, panicFirst>>

Next ==
    \/ Unpack
    \/ \E d \in DestsFor(term) : RawDataCast(d)
    \/ \E d \in DestsFor(term) : UncastedResultCast(d)

Spec == Init /\ [][Next]_vars

(***************************************************************************)
(* The claims.                                                             *)
(***************************************************************************)
IsRaw(t) == BaseType(t).k \in {"RawData", "RawMessage"}

\* an Unpack call that got past the pointer and version tests
Unpacked == call = "Unpack" /\ byPtr /\ data[1] = Version

\* C1: an input whose buffer ends before a declared payload is complete (a
\* list, map, binary, int32 or float cut short) never decodes in Materialize
\* mode: Unpack returns an error.
C1_TruncatedInputFails ==
    (/\ Unpacked
     /\ ~IsRaw(dtype)
     /\ term.tag \in {"l", "t", "m", "b", "F"}
     /\ cut >= 1
     /\ cut < Len(Enc(term)))
    => ret = "err"

\* C2: decoding a well-formed term followed by further bytes into a raw
\* destination succeeds, leaves the cursor at the first byte after the term,
\* where Materialize mode leaves it, and returns exactly the term's bytes.
C2_RawSpanIsTheTerm ==
    (Unpacked /\ IsRaw(dtype) /\ Whole)
    => /\ ret = "ok"
       /\ cursor = 1 + Len(Enc(term))
       /\ LeafVal(dtype, dval) = Enc(term)
       /\ LET m == UnpackFn(data, TRUE, TAny, NilItem)
          IN  m.st = "ok" => m.i = cursor

\* C3: an s atom becomes a boolean or nil only when its name is exactly
\* true, false or nil; any other name is an Atom with the wire name, and an
\* atom-typed destination receives exactly that name.  (Stated here for the
\* names of one byte or more.)
C3_AtomReservationExact ==
    (Unpacked /\ Whole /\ term.tag = "s" /\ term.name # <<>>)
    => /\ dtype = TAtom => (ret = "ok" /\ dval = term.name)
       /\ dtype = TAny =>
             /\ ret = "ok"
             /\ dval = (IF term.name = TrueName THEN BoolItem(TRUE)
                        ELSE IF term.name = FalseName THEN BoolItem(FALSE)
                        ELSE IF term.name = NilName THEN NilItem
                        ELSE AtomItem(term.name))

RECURSIVE MagValue(_)
MagValue(mag) == IF mag = <<>> THEN 0 ELSE mag[1] + 256 * MagValue(Tail(mag))

\* C4: an n term with sign byte s and magnitude bytes b decodes to the
\* integer of magnitude sum b[i] * 256^i, positive when s = 0 and negative
\* when s is nonzero.
C4_BigIntValue ==
    (Unpacked /\ Whole /\ term.tag = "n" /\ dtype = TInt64)
    => /\ ret = "ok"
       /\ dval = (IF term.sign = 0 THEN MagValue(term.mag) ELSE 0 - MagValue(term.mag))

\* the value a cast of term t into a new slot of type ty gives
CastOf(t, ty) ==
    HandleItemCasting(ProcessItem(TAny, NilItem, Enc(t), 0).val, ty, Zero(ty)).val

\* a successful cast of a whole map term, all keys text, into a record
\* without a decode hook
RecordCast ==
    /\ call \in {"Unpack", "RawData.Cast", "UncastedResult.Cast"}
    /\ byPtr
    /\ ret = "ok"
    /\ Whole
    /\ term.tag = "t"
    /\ \A i \in 1..Len(term.pairs) : term.pairs[i].key.tag = "m"
    /\ BaseType(dtype).k = "struct"
    /\ BaseType(dtype).hook = "none"

\* the map entry whose key is the lookup key of field f (0: none)
EntryOf(f) ==
    LET hits == {i \in 1..Len(term.pairs) : term.pairs[i].key.bin = LookupKey(f)}
    IN  IF hits = {} THEN 0 ELSE CHOOSE i \in hits : TRUE

DistinctKeys(fs) ==
    \A i, j \in 1..Len(fs) :
        (i # j /\ fs[i].tag # Dash /\ fs[j].tag # Dash) => LookupKey(fs[i]) # LookupKey(fs[j])

\* the record's fields, the record after the call and before it, and the
\* fields whose lookup key is a key of the map
RecFields == BaseType(dtype).fields

RecNew == LeafVal(dtype, dval)

RecOld == LeafVal(dtype, pre)

Written(f) == RecFields[f].tag # Dash /\ EntryOf(RecFields[f]) # 0

\* C5 as stated: the cast writes exactly the fields whose lookup key is a key
\* of the map (each holds the cast of that key's value), and every other
\* field, a field tagged "-" included, holds the value it held in the
\* destination before the call.
C5_OtherFieldsKeepOldValue ==
    RecordCast =>
        \A f \in 1..Len(RecFields) :
            IF Written(f)
            THEN RecNew[f] = CastOf(term.pairs[EntryOf(RecFields[f])].val, RecFields[f].type)
            ELSE Reaches(dtype, pre) /\ RecNew[f] = RecOld[f]

\* C5 as amended: for a record whose fields that are not excluded have
\* distinct lookup keys, the cast writes exactly the fields whose lookup key
\* is a key of the map (each holds the cast of that key's value), and every
\* other field, a field tagged "-" included, holds the zero value of its
\* type, whatever it held before the call.
C5_OtherFieldsZero ==
    (RecordCast /\ DistinctKeys(RecFields)) =>
        \A f \in 1..Len(RecFields) :
            IF Written(f)
            THEN RecNew[f] = CastOf(term.pairs[EntryOf(RecFields[f])].val, RecFields[f].type)
            ELSE RecNew[f] = Zero(RecFields[f].type)

\* a filled record received the keys A and C: field A is written and the
\* excluded field C, the tagged field and the pointer field are zero
C5_Witness ==
    /\ RecordCast
    /\ call = "Unpack"
    /\ dtype = S1
    /\ pre = S1Filled
    /\ \E i \in 1..Len(term.pairs) : term.pairs[i].key = BinT(NameC)
    /\ dval = <<5, <<>>, 0, NilPtr>>

\* C6: casting Absent into a non-atom destination with two or more layers of
\* indirection sets the outermost layer to nil and touches no other layer;
\* with a bare value behind the caller's pointer the call fails.
C6_AbsentClearsOutermost ==
    (/\ Unpacked
     /\ Whole
     /\ term = AtomT(NilName)
     /\ ~IsRaw(dtype)
     /\ BaseType(dtype).k \notin {"Atom", "any", "UncastedResult"})
    => IF dtype.k = "ptr"
       THEN ret = "ok" /\ dval = NilPtr
       ELSE ret = "err"

\* C7: a raw-capture marker at a nested position (the element type of a
\* sequence, the value type of a map, a record field) receives the exact
\* wire bytes of the sub-term there, and Unpack succeeds.
C7_NestedRawCapture ==
    (Unpacked /\ Whole) =>
        /\ (term.tag = "l" /\ dtype = TSlice(TRawData)) =>
              /\ ret = "ok"
              /\ dval = [i \in 1..Len(term.elems) |-> Enc(term.elems[i])]
        /\ (/\ term.tag = "t"
            /\ dtype = TMap(TString, TRawData)
            /\ \A i \in 1..Len(term.pairs) : term.pairs[i].key.tag = "m") =>
              /\ ret = "ok"
              /\ dval = [i \in 1..Len(term.pairs) |->
                            [key |-> term.pairs[i].key.bin, val |-> Enc(term.pairs[i].val)]]
        /\ (/\ term.tag = "t"
            /\ dtype = SRaw
            /\ \E i \in 1..Len(term.pairs) : term.pairs[i].key = BinT(NameA)) =>
              /\ ret = "ok"
              /\ \E i \in 1..Len(term.pairs) :
                    term.pairs[i].key = BinT(NameA) /\ dval[1] = Enc(term.pairs[i].val)

\* the integer destinations at least as wide as a term's integer
WideEnough(tag) ==
    CASE tag = "a" -> {TUint8, TUint, TInt, TInt32, TInt64}
      [] tag = "b" -> {TInt32, TInt, TInt64}
      [] tag = "n" -> {TInt64, TInt}

\* C8: a small integer, int32 or int64 term cast into an integer destination
\* at least as wide succeeds with its value; a cast fails only into a
\* narrower or a non-integer destination.  (The value of an n term is C4's.)
C8_IntegerWidening ==
    (Unpacked /\ Whole /\ term.tag \in {"a", "b", "n"} /\ dtype \in WideEnough(term.tag))
    => /\ ret = "ok"
       /\ term.tag = "a" => dval = term.n
       /\ term.tag = "b" => dval = Int32Of(term.bytes)

\* C9: an m binary of length 0 decodes wherever it stands, whether or not
\* bytes follow: to the empty string, or to an empty byte sequence.
C9_EmptyBinaryDecodes ==
    (Unpacked /\ Whole) =>
        /\ (term = BinT(<<>>) /\ dtype \in {TString, TBytes}) =>
              (ret = "ok" /\ dval = <<>>)
        /\ (/\ term.tag = "l"
            /\ \A i \in 1..Len(term.elems) : term.elems[i] = BinT(<<>>)
            /\ dtype = TSlice(TString)) =>
              (ret = "ok" /\ dval = [i \in 1..Len(term.elems) |-> <<>>])

\* C10: whenever Unpack, RawData.Cast or UncastedResult.Cast returns an
\* error, the caller's destination, every layer of its pointer chain and
\* every element and field, is what it was before the call.
C10_ErrorLeavesDestination ==
    ret = "err" => dval = pre

\* a map whose value cannot go into its field was cast into a filled record
\* behind a pointer: the error comes from a nested cast
C10_Witness ==
    /\ call \in {"Unpack", "RawData.Cast", "UncastedResult.Cast"}
    /\ byPtr
    /\ Whole
    /\ ret = "err"
    /\ term.tag = "t"
    /\ dtype = TPtr(S1)
    /\ pre = OldPtr(S1Filled)
    /\ dval = OldPtr(S1Filled)

\* C11: in both modes, every allocation sized from a length read from the
\* wire is made only after the length was checked against the bytes left in
\* the buffer: the allocation of the outermost term is never sized by a length
\* greater than the number of bytes still unread.
C11_AllocationWithinRemaining ==
    (Unpacked /\ call = "Unpack" /\ Len(data) >= 2) =>
        LET a == AllocRequest(data[2], data, 2, IsRaw(dtype))
        IN  a.made => a.n <= a.left

\* C12: Unpack is total on byte input: for every byte sequence and every
\* non-nil pointer destination it finishes by returning nil or an error, never
\* by an abnormal abort.  (Stated here for the destinations every term can be
\* decoded into: interface{}, Atom and the raw-capture types.)
C12_UnpackTotal ==
    (Unpacked /\ call = "Unpack"
     /\ BaseType(dtype).k \in {"any", "Atom", "RawData", "RawMessage"})
    => ret \in {"ok", "err"}

====
